---- MODULE Spec2Model ----
(***************************************************************************)
(* The lightnet training engine as the tutorial notebook                   *)
(* docs/notes/02-B-engine.ipynb presents it: HyperParameters (the          *)
(* parameter bag), the hook registry and the Engine run loop, with the     *)
(* tutorial's CustomEngine plugged in.                                     *)
(***************************************************************************)
EXTENDS Integers, Sequences, FiniteSets, TLC

VARIABLES
    params,     \* BagSpec: the HyperParameters object under test
    pfile,      \* BagSpec: content of parameters.state.pt (NoFile before save)
    saved,      \* BagSpec: the bag as it was when save() ran
    fresh,      \* BagSpec: the freshly constructed bag that load() fills
    freshAt,    \* BagSpec: the fresh bag as it was just before load()
    everMarked, \* BagSpec: keys of params ever assigned under a marked name
    lastMarked, \* BagSpec: keys of params whose last assignment used a marked name
    lastSet,    \* BagSpec: the last assignment made on params, <<name, value>>
    got,        \* BagSpec: the last attribute read on params and its result
    shown,      \* BagSpec: the last output of print(params)
    phase,      \* BagSpec: "use", "saved", "fresh" or "loaded"
    step,       \* BagSpec: number of assignments and increments done on params
    eng,        \* Spec: the engine (bag, own attributes, hooks, data source, position)
    twin,       \* Spec: the same engine constructed with mini_batch_size = 1
    hk,         \* HookSpec: a hook registry, the counters passed to fire, the calls made
    acc         \* AttrSpec: an engine, the last name read on it and the result

vars == <<params, pfile, saved, fresh, freshAt, everMarked, lastMarked, lastSet, got,
          shown, phase, step, eng, twin, hk, acc>>
bagVars == <<params, pfile, saved, fresh, freshAt, everMarked, lastMarked, lastSet, got,
             shown, phase, step>>

(***************************************************************************)
(* Bounds of the model.                                                    *)
(***************************************************************************)
MaxVal == 1         \* attribute values and module states are 0..MaxVal
MaxKw == 1          \* keyword arguments given to a HyperParameters constructor
MaxSteps == 3       \* assignments and increments on a bag in one behaviour

(***************************************************************************)
(* Attribute names.  A name is a sequence of tokens: zero or more private  *)
(* markers "_" followed by a word, so that `_foo' is <<"_", "foo">>.       *)
(***************************************************************************)
Marker == "_"

Unmarked(word) == <<word>>
Private(word) == <<Marker, word>>

IsMarked(name) == Len(name) > 1 /\ Head(name) = Marker

\* the stored key: the name with one leading marker removed
Strip(name) == IF IsMarked(name) THEN Tail(name) ELSE name

(***************************************************************************)
(* Values.  A plain value is stored as it is; a module (network, optimizer)*)
(* exposes state_dict() / load_state_dict(): `v' is its state and `loaded' *)
(* the arguments load_state_dict() was called with, in order.              *)
(***************************************************************************)
Plain(n) == [kind |-> "plain", v |-> n, loaded |-> <<>>]
Module(w) == [kind |-> "module", v |-> w, loaded |-> <<>>]

HasStateDict(x) == x.kind = "module"

state_dict(x) == Plain(x.v)

load_state_dict(x, st) == [x EXCEPT !.v = st.v, !.loaded = Append(@, st)]

(***************************************************************************)
(* HyperParameters.                                                        *)
(***************************************************************************)
EmptyBag == [attrs |-> <<>>, no_serialize |-> {}]

Put(f, k, x) == [a \in (DOMAIN f) \cup {k} |-> IF a = k THEN x ELSE f[a]]

\* object.name = value
BagSetAssignTime(bag, name, x) ==
    [attrs |-> Put(bag.attrs, Strip(name), x),
     no_serialize |-> IF IsMarked(name)
                        THEN bag.no_serialize \cup {Strip(name)}
                        ELSE bag.no_serialize \ {Strip(name)}]

BagSet(bag, name, x) ==
    [attrs |-> Put(bag.attrs, Strip(name), x),
     no_serialize |-> IF IsMarked(name)
                        THEN bag.no_serialize \cup {Strip(name)}
                        ELSE bag.no_serialize]

AttributeError == [kind |-> "AttributeError", v |-> 0, loaded |-> <<>>]

\* object.name
BagGet(bag, key) ==
    IF key \in DOMAIN bag.attrs THEN bag.attrs[key] ELSE AttributeError

RECURSIVE SetAll(_, _)
SetAll(bag, kw) ==
    IF kw = <<>> THEN bag
    ELSE SetAll(BagSet(bag, Head(kw)[1], Head(kw)[2]), Tail(kw))

\* HyperParameters(**kwargs): batch and epoch are always initialised to 0
BagNewKwLast(kw) ==
    SetAll(EmptyBag, <<<<Unmarked("batch"), Plain(0)>>,
                       <<Unmarked("epoch"), Plain(0)>>>> \o kw)

BagNew(kw) ==
    SetAll(EmptyBag, kw \o <<<<Unmarked("batch"), Plain(0)>>,
                             <<Unmarked("epoch"), Plain(0)>>>>)

Serializable(bag) == (DOMAIN bag.attrs) \ bag.no_serialize

\* save(): the mapping written to the file
BagSaveRaw(bag) == [k \in Serializable(bag) |-> bag.attrs[k]]

BagSave(bag) ==
    [k \in Serializable(bag) |->
        IF HasStateDict(bag.attrs[k]) THEN state_dict(bag.attrs[k]) ELSE bag.attrs[k]]

\* load(): one key of the file
LoadKeyAssign(bag, k, x) == BagSet(bag, k, x)

LoadKey(bag, k, x) ==
    IF k \in DOMAIN bag.attrs /\ HasStateDict(bag.attrs[k])
      THEN [bag EXCEPT !.attrs[k] = load_state_dict(@, x)]
      ELSE BagSet(bag, k, x)

RECURSIVE LoadKeys(_, _, _)
LoadKeys(bag, file, keys) ==
    IF keys = {} THEN bag
    ELSE LET k == CHOOSE k \in keys : TRUE
         IN LoadKeys(LoadKey(bag, k, file[k]), file, keys \ {k})

BagLoad(bag, file) == LoadKeys(bag, file, DOMAIN file)

(***************************************************************************)
(* print(params): one line per attribute, sorted by name, a star behind    *)
(* the names that are not stored when saving.                              *)
(***************************************************************************)
WordOrder == <<"bar", "batch", "epoch", "foo", "max_batches", "mini_batch_size", "network">>

WordRank(w) == CHOOSE i \in 1..Len(WordOrder) : WordOrder[i] = w

\* string comparison: the marker character sorts before every letter
RECURSIVE KeyLess(_, _)
KeyLess(a, b) ==
    IF a = <<>> THEN b # <<>>
    ELSE IF b = <<>> THEN FALSE
    ELSE IF Head(a) = Head(b) THEN KeyLess(Tail(a), Tail(b))
    ELSE IF Head(a) = Marker THEN TRUE
    ELSE IF Head(b) = Marker THEN FALSE
    ELSE WordRank(Head(a)) < WordRank(Head(b))

RECURSIVE SortKeys(_)
SortKeys(keys) ==
    IF keys = {} THEN <<>>
    ELSE LET m == CHOOSE k \in keys : \A o \in keys \ {k} : KeyLess(k, o)
         IN <<m>> \o SortKeys(keys \ {m})

Describe(bag) ==
    LET ks == SortKeys(DOMAIN bag.attrs)
    IN [i \in 1..Len(ks) |->
          [name |-> ks[i], star |-> ks[i] \in bag.no_serialize, value |-> bag.attrs[ks[i]].v]]

(***************************************************************************)
(* The engine's increment of a reserved counter of its bag.                *)
(***************************************************************************)
Increment(bag, counter) ==
    [bag EXCEPT !.attrs[Unmarked(counter)] = Plain(@.v + 1)]

(***************************************************************************)
(* BagSpec: a user works on a HyperParameters object, saves it, constructs *)
(* a fresh object and loads the file into it (notebook cells 2 and 3).     *)
(***************************************************************************)
BagWords == {"foo", "network"}

\* the tutorial keeps plain data under foo/bar/baz and a module under network
ValuesOf(word) ==
    IF word = "network" THEN {Module(w) : w \in 0..MaxVal}
    ELSE {Plain(n) : n \in 0..MaxVal}

Assignments ==
    UNION {{<<Unmarked(w), x>> : x \in ValuesOf(w)} : w \in BagWords} \cup
    UNION {{<<Private(w), x>> : x \in ValuesOf(w)} : w \in BagWords}

\* a constructor may also be handed a reserved name
KwAssignments == Assignments \cup {<<Unmarked("batch"), Plain(MaxVal)>>}

RECURSIVE SeqsUpTo(_, _)
SeqsUpTo(S, n) ==
    IF n = 0 THEN {<<>>}
    ELSE LET shorter == SeqsUpTo(S, n - 1)
         IN shorter \cup {Append(q, x) : q \in shorter, x \in S}

Kwargs == SeqsUpTo(KwAssignments, MaxKw)

\* keys assigned under a marked name by a sequence of assignments
MarkedBy(kw) == {Strip(kw[i][1]) : i \in {j \in 1..Len(kw) : IsMarked(kw[j][1])}}

\* keys whose last assignment in the sequence used a marked name
LastMarkedBy(kw) ==
    {Strip(kw[i][1]) : i \in {j \in 1..Len(kw) :
        /\ IsMarked(kw[j][1])
        /\ \A l \in (j + 1)..Len(kw) : Strip(kw[l][1]) # Strip(kw[j][1])}}

NoFile == [exists |-> FALSE, data |-> <<>>]
NotRead == [key |-> <<>>, res |-> AttributeError]

BagStart ==
    /\ \E kw \in Kwargs :
         /\ params = BagNew(kw)
         /\ everMarked = MarkedBy(kw)
         /\ lastMarked = LastMarkedBy(kw) \ {Unmarked("batch"), Unmarked("epoch")}
         /\ lastSet = <<Unmarked("epoch"), Plain(0)>>
    /\ pfile = NoFile
    /\ saved = EmptyBag
    /\ fresh = EmptyBag
    /\ freshAt = EmptyBag
    /\ got = NotRead
    /\ shown = <<>>
    /\ phase = "use"
    /\ step = 0

\* params.name = value
PSet ==
    /\ phase = "use"
    /\ step < MaxSteps
    /\ \E a \in Assignments :
         /\ params' = BagSet(params, a[1], a[2])
         /\ everMarked' = IF IsMarked(a[1]) THEN everMarked \cup {Strip(a[1])} ELSE everMarked
         /\ lastMarked' = IF IsMarked(a[1]) THEN lastMarked \cup {Strip(a[1])}
                          ELSE lastMarked \ {Strip(a[1])}
         /\ lastSet' = a
    /\ step' = step + 1
    /\ got' = NotRead
    /\ shown' = <<>>
    /\ UNCHANGED <<pfile, saved, fresh, freshAt, phase>>
    /\ UNCHANGED <<eng, twin, hk, acc>>

\* the engine that owns the bag completes a batch or an epoch
PTick ==
    /\ phase = "use"
    /\ step < MaxSteps
    /\ \E c \in {"batch", "epoch"} :
         /\ params' = Increment(params, c)
         /\ lastSet' = <<Unmarked(c), Plain(params.attrs[Unmarked(c)].v + 1)>>
    /\ step' = step + 1
    /\ got' = NotRead
    /\ shown' = <<>>
    /\ UNCHANGED <<pfile, saved, fresh, freshAt, everMarked, lastMarked, phase>>
    /\ UNCHANGED <<eng, twin, hk, acc>>

\* params.key
PGet ==
    /\ phase = "use"
    /\ \E k \in {Unmarked(w) : w \in BagWords \cup {"batch", "epoch"}}
               \cup {Private(w) : w \in BagWords} :
         got' = [key |-> k, res |-> BagGet(params, k)]
    /\ UNCHANGED <<params, pfile, saved, fresh, freshAt, everMarked, lastMarked, lastSet, shown,
                   phase, step>>
    /\ UNCHANGED <<eng, twin, hk, acc>>

\* print(params)
PPrint ==
    /\ phase = "use"
    /\ shown' = Describe(params)
    /\ UNCHANGED <<params, pfile, saved, fresh, freshAt, everMarked, lastMarked, lastSet, got,
                   phase, step>>
    /\ UNCHANGED <<eng, twin, hk, acc>>

\* params.save('parameters.state.pt')
PSave ==
    /\ phase = "use"
    /\ pfile' = [exists |-> TRUE, data |-> BagSave(params)]
    /\ saved' = params
    /\ phase' = "saved"
    /\ got' = NotRead
    /\ shown' = <<>>
    /\ UNCHANGED <<params, fresh, freshAt, everMarked, lastMarked, lastSet, step>>
    /\ UNCHANGED <<eng, twin, hk, acc>>

\* params = HyperParameters(...) in a new session
PFresh ==
    /\ phase = "saved"
    /\ \E kw \in Kwargs : fresh' = BagNew(kw)
    /\ phase' = "fresh"
    /\ UNCHANGED <<params, pfile, saved, freshAt, everMarked, lastMarked, lastSet, got, shown, step>>
    /\ UNCHANGED <<eng, twin, hk, acc>>

\* params.load('parameters.state.pt')
PLoad ==
    /\ phase = "fresh"
    /\ freshAt' = fresh
    /\ fresh' = BagLoad(fresh, pfile.data)
    /\ phase' = "loaded"
    /\ UNCHANGED <<params, pfile, saved, everMarked, lastMarked, lastSet, got, shown, step>>
    /\ UNCHANGED <<eng, twin, hk, acc>>

BagNext ==
    \/ PSet
    \/ PTick
    \/ PGet
    \/ PPrint
    \/ PSave
    \/ PFresh
    \/ PLoad

(***************************************************************************)
(* The hook registry.  A hook is [stride, fn]; the registry maps each      *)
(* lifecycle event to the hooks registered on it, in registration order.   *)
(***************************************************************************)
Events == {"batch_start", "batch_end", "epoch_start", "epoch_end"}

NoHooks == [ev \in Events |-> <<>>]

\* Engine.batch_end(stride)(fn) and the like
RegisterFront(reg, ev, stride, fn) ==
    IF stride < 1 THEN reg
    ELSE [reg EXCEPT ![ev] = <<[stride |-> stride, fn |-> fn]>> \o @]

Register(reg, ev, stride, fn) ==
    IF stride < 1 THEN reg
    ELSE [reg EXCEPT ![ev] = Append(@, [stride |-> stride, fn |-> fn])]

RegisterFails(stride) == stride < 1

\* the error a register call raises, "" if none
RegisterError(stride) == IF RegisterFails(stride) THEN "ValueError" ELSE ""

\* is a hook of this stride due for this counter value
DueShifted(stride, counter) == counter > 0 /\ (counter - 1) % stride = 0

Due(stride, counter) == counter > 0 /\ counter % stride = 0

\* the hooks fire(event, counter) invokes, in order
RECURSIVE DueHooks(_, _)
DueHooks(hooks, counter) ==
    IF hooks = <<>> THEN <<>>
    ELSE IF Due(Head(hooks).stride, counter)
           THEN <<Head(hooks)>> \o DueHooks(Tail(hooks), counter)
           ELSE DueHooks(Tail(hooks), counter)

Fire(reg, ev, counter) == DueHooks(reg[ev], counter)

(***************************************************************************)
(* The engine.  Fields of an engine record:                                *)
(*   state      IDLE, RUNNING or STOPPED                                   *)
(*   pc         position inside the run loop                               *)
(*   params     the HyperParameters object it owns                         *)
(*   attrs      its own attributes (the constructor's keyword arguments)   *)
(*   defines    the methods the Engine subclass implements                 *)
(*   hooks      the hook registry                                          *)
(*   len, pos   the data source: its length and the items pulled so far    *)
(*   mb         process_batch calls made in the current batch              *)
(*   boundary   the source signalled the end of a pass during this batch   *)
(*   loss_acc   CustomEngine's loss accumulator (its length)               *)
(*   backups    the files CustomEngine.backup wrote                        *)
(*   log        every call made on the subclass, in order, each with the   *)
(*              bag's batch and epoch at the time of the call              *)
(*   err        the error that aborted the run, "" if none                 *)
(*   why        why the last run left the loop                             *)
(*   runs       invocations so far                                         *)
(***************************************************************************)
MaxLen == 10            \* items of the data source
MaxMB == 4              \* mini_batch_size
MaxBatches == 3         \* max_batches
MaxStride == 2          \* backup_rate and the strides handed to register
MaxRuns == 2            \* invocations of one engine
TenBatches == 10        \* stride of every_ten_batches

\* items in one pass of the data source: a pass is a full batch or more
PassLen == MaxMB

Entry(op, ev, fn, n, e) ==
    [op |-> op, ev |-> ev, fn |-> fn, n |-> n, batch |-> e.params.attrs[Unmarked("batch")].v,
     epoch |-> e.params.attrs[Unmarked("epoch")].v]

Logged(e, op, ev, fn, n) == [e EXCEPT !.log = Append(@, Entry(op, ev, fn, n, e))]

Abort(e, kind) == [e EXCEPT !.pc = "error", !.err = kind, !.why = "error",
                            !.state = IF @ = "RUNNING" THEN "STOPPED" ELSE @]

\* engine.name: the engine's own attribute, else the attribute of its bag
EngineGetBagFirst(e, key) ==
    IF key \in DOMAIN e.params.attrs THEN e.params.attrs[key]
    ELSE IF key \in DOMAIN e.attrs THEN e.attrs[key]
    ELSE AttributeError

EngineGet(e, key) ==
    IF key \in DOMAIN e.attrs THEN e.attrs[key] ELSE BagGet(e.params, key)

\* without a mini_batch_size attribute the size is set to 1
MiniBatchSizeIgnored(e) == 1

MiniBatchSizeNoDefault(e) ==
    LET x == EngineGet(e, Unmarked("mini_batch_size"))
    IN IF x = AttributeError THEN MaxMB ELSE x.v

MiniBatchSize(e) ==
    LET x == EngineGet(e, Unmarked("mini_batch_size"))
    IN IF x = AttributeError THEN 1 ELSE x.v

\* CustomEngine.backup / every_epoch / every_ten_batches, called as hooks
CallHook(e, ev, h, counter) ==
    LET l == Logged(e, "hook", ev, h.fn, counter)
    IN IF h.fn = "backup"
         THEN [l EXCEPT !.backups = Append(@, BagSave(e.params))]
         ELSE l

RECURSIVE CallHooks(_, _, _, _)
CallHooks(e, ev, hs, counter) ==
    IF hs = <<>> THEN e
    ELSE CallHooks(CallHook(e, ev, Head(hs), counter), ev, Tail(hs), counter)

RunHooks(e, ev, counter) == CallHooks(e, ev, Fire(e.hooks, ev, counter), counter)

\* CustomEngine.start
StartOnBatchStart(e) ==
    LET rate == EngineGet(e, Unmarked("backup_rate"))
        l == [Logged(e, "start", "", "", 0) EXCEPT !.loss_acc = 0]
    IN IF rate = AttributeError THEN Abort(l, "AttributeError")
       ELSE IF rate.v > 0
         THEN [l EXCEPT !.hooks = Register(@, "batch_start", rate.v, "backup")]
         ELSE l

StartTwice(e) ==
    LET rate == EngineGet(e, Unmarked("backup_rate"))
        l == [Logged(e, "start", "", "", 0) EXCEPT !.loss_acc = 0]
    IN IF rate = AttributeError THEN Abort(l, "AttributeError")
       ELSE IF rate.v > 0
         THEN [l EXCEPT !.hooks = Register(Register(@, "batch_end", rate.v, "backup"),
                                           "batch_end", rate.v, "backup")]
         ELSE l

Start(e) ==
    LET rate == EngineGet(e, Unmarked("backup_rate"))
        l == [Logged(e, "start", "", "", 0) EXCEPT !.loss_acc = 0]
    IN IF rate = AttributeError THEN Abort(l, "AttributeError")
       ELSE IF rate.v > 0
         THEN [l EXCEPT !.hooks = Register(@, "batch_end", rate.v, "backup")]
         ELSE l

Required == {"process_batch", "train_batch"}

\* engine(): IDLE -> RUNNING on the first invocation, with start()
EnterUnchecked(e) ==
    LET r == [Logged(e, "engine", "", "", e.runs + 1) EXCEPT !.runs = @ + 1, !.why = ""]
    IN IF e.state = "IDLE"
         THEN LET s == Start([r EXCEPT !.state = "RUNNING"])
              IN IF s.err # "" THEN s ELSE [s EXCEPT !.pc = "loop"]
         ELSE [r EXCEPT !.state = "RUNNING", !.pc = "loop"]

EnterStartAlways(e) ==
    LET r == [Logged(e, "engine", "", "", e.runs + 1) EXCEPT !.runs = @ + 1, !.why = ""]
    IN IF ~(Required \subseteq e.defines) THEN Abort(r, "ConfigurationError")
       ELSE LET s == Start([r EXCEPT !.state = "RUNNING"])
            IN IF s.err # "" THEN s ELSE [s EXCEPT !.pc = "loop"]

Enter(e) ==
    LET r == [Logged(e, "engine", "", "", e.runs + 1) EXCEPT !.runs = @ + 1, !.why = ""]
    IN IF ~(Required \subseteq e.defines) THEN Abort(r, "ConfigurationError")
       ELSE IF e.state = "IDLE"
         THEN LET s == Start([r EXCEPT !.state = "RUNNING"])
              IN IF s.err # "" THEN s ELSE [s EXCEPT !.pc = "loop"]
         ELSE [r EXCEPT !.state = "RUNNING", !.pc = "loop"]

\* the loop ends when the data source is exhausted
LoopHeadAsksQuit(e) ==
    IF e.pos >= e.len
      THEN [e EXCEPT !.state = "STOPPED", !.pc = "done", !.why = "exhausted"]
      ELSE [Logged(e, "quit", "", "", 0) EXCEPT !.pc = "batch_start"]

LoopHead(e) ==
    IF e.pos >= e.len
      THEN [e EXCEPT !.state = "STOPPED", !.pc = "done", !.why = "exhausted"]
      ELSE [e EXCEPT !.pc = "batch_start"]

\* batch_start hooks see the number of the batch about to be processed
BatchStart(e) ==
    [RunHooks(e, "batch_start", e.params.attrs[Unmarked("batch")].v + 1)
        EXCEPT !.pc = "process", !.mb = 0, !.boundary = FALSE]

MiniBatchDone(e, mb, pos) == mb >= MiniBatchSize(e) \/ pos >= e.len

\* one data item pulled and handed to CustomEngine.process_batch
ProcessBatchSuppressed(e, raise) ==
    LET item == e.pos + 1
        p == [e EXCEPT !.pos = item,
                       !.boundary = @ \/ item % PassLen = 0]
    IN IF "process_batch" \notin e.defines THEN Abort(p, "AttributeError")
       ELSE IF raise
         THEN [Logged(p, "process_batch", "", "raise", item)
                  EXCEPT !.mb = @ + 1,
                         !.pc = IF MiniBatchDone(e, e.mb + 1, item) THEN "train" ELSE "process"]
       ELSE [Logged(p, "process_batch", "", "", item)
                EXCEPT !.loss_acc = @ + 1,
                       !.mb = @ + 1,
                       !.pc = IF MiniBatchDone(e, e.mb + 1, item) THEN "train" ELSE "process"]

ProcessBatch(e, raise) ==
    LET item == e.pos + 1
        p == [e EXCEPT !.pos = item,
                       !.boundary = @ \/ item % PassLen = 0]
    IN IF "process_batch" \notin e.defines THEN Abort(p, "AttributeError")
       ELSE IF raise
         THEN Abort(Logged(p, "process_batch", "", "raise", item), "CollaboratorError")
       ELSE [Logged(p, "process_batch", "", "", item)
                EXCEPT !.loss_acc = @ + 1,
                       !.mb = @ + 1,
                       !.pc = IF MiniBatchDone(e, e.mb + 1, item) THEN "train" ELSE "process"]

\* CustomEngine.train_batch
TrainBatchNoReset(e, raise) ==
    IF "train_batch" \notin e.defines THEN Abort(e, "AttributeError")
    ELSE IF raise THEN Abort(Logged(e, "train_batch", "", "raise", e.loss_acc), "CollaboratorError")
    ELSE IF e.loss_acc = 0 THEN Abort(e, "ZeroDivisionError")
    ELSE [Logged(e, "train_batch", "", "", e.loss_acc) EXCEPT !.pc = "increment"]

TrainBatch(e, raise) ==
    IF "train_batch" \notin e.defines THEN Abort(e, "AttributeError")
    ELSE IF raise THEN Abort(Logged(e, "train_batch", "", "raise", e.loss_acc), "CollaboratorError")
    ELSE IF e.loss_acc = 0 THEN Abort(e, "ZeroDivisionError")
    ELSE [Logged(e, "train_batch", "", "", e.loss_acc)
             EXCEPT !.loss_acc = 0, !.pc = "increment"]

IncrementBatch(e) ==
    [e EXCEPT !.params = Increment(@, "batch"), !.pc = "batch_end"]

BatchEnd(e) ==
    [RunHooks(e, "batch_end", e.params.attrs[Unmarked("batch")].v) EXCEPT !.pc = "epoch"]

\* the end of a pass over the data source
EpochEnd(e) ==
    IF e.boundary
      THEN LET i == [e EXCEPT !.params = Increment(@, "epoch"), !.boundary = FALSE]
               n == i.params.attrs[Unmarked("epoch")].v
           IN [RunHooks(RunHooks(i, "epoch_end", n), "epoch_start", n) EXCEPT !.pc = "quit"]
      ELSE [e EXCEPT !.pc = "quit"]

\* CustomEngine.quit; the Engine's own quit never ends the training
QuitValueAfter(e) ==
    LET b == EngineGet(e, Unmarked("batch"))
        m == EngineGet(e, Unmarked("max_batches"))
    IN IF "quit" \notin e.defines THEN "false"
       ELSE IF b = AttributeError \/ m = AttributeError THEN "AttributeError"
       ELSE IF b.v > m.v THEN "true" ELSE "false"

QuitValueDefaultTrue(e) ==
    LET b == EngineGet(e, Unmarked("batch"))
        m == EngineGet(e, Unmarked("max_batches"))
    IN IF "quit" \notin e.defines THEN "true"
       ELSE IF b = AttributeError \/ m = AttributeError THEN "AttributeError"
       ELSE IF b.v >= m.v THEN "true" ELSE "false"

QuitValue(e) ==
    LET b == EngineGet(e, Unmarked("batch"))
        m == EngineGet(e, Unmarked("max_batches"))
    IN IF "quit" \notin e.defines THEN "false"
       ELSE IF b = AttributeError \/ m = AttributeError THEN "AttributeError"
       ELSE IF b.v >= m.v THEN "true" ELSE "false"

Quit(e) ==
    LET q == QuitValue(e)
    IN IF q = "AttributeError" THEN Abort(Logged(e, "quit", "", "raise", 0), "AttributeError")
       ELSE IF q = "true"
         THEN [Logged(e, "quit", "", "", 1)
                  EXCEPT !.state = "STOPPED", !.pc = "done", !.why = "quit"]
         ELSE [Logged(e, "quit", "", "", 0) EXCEPT !.pc = "loop"]

\* the step an engine takes from its position
Step(e, raise) ==
    CASE e.pc \in {"idle", "done"} -> IF e.runs < MaxRuns THEN Enter(e) ELSE e
      [] e.pc = "loop" -> LoopHead(e)
      [] e.pc = "batch_start" -> BatchStart(e)
      [] e.pc = "process" -> ProcessBatch(e, raise)
      [] e.pc = "train" -> TrainBatch(e, raise)
      [] e.pc = "increment" -> IncrementBatch(e)
      [] e.pc = "batch_end" -> BatchEnd(e)
      [] e.pc = "epoch" -> EpochEnd(e)
      [] e.pc = "quit" -> Quit(e)
      [] OTHER -> e

(***************************************************************************)
(* Construction (notebook cell 4): a HyperParameters object, then the      *)
(* engine with its keyword arguments.  The decorated methods of cell 5 are *)
(* registered when the class is defined.                                   *)
(***************************************************************************)
DecoratedHooksOnBatchEnd ==
    Register(Register(NoHooks, "epoch_end", 1, "every_epoch"),
             "batch_end", TenBatches, "every_ten_batches")

DecoratedHooksEpochOnBatch ==
    Register(Register(NoHooks, "batch_end", 1, "every_epoch"),
             "batch_start", TenBatches, "every_ten_batches")

DecoratedHooks ==
    Register(Register(NoHooks, "epoch_end", 1, "every_epoch"),
             "batch_start", TenBatches, "every_ten_batches")

\* a subclass may decorate one more method as a batch_start hook (0: it does not)
WithBatchStartHook(reg, stride) ==
    IF stride = 0 THEN reg ELSE Register(reg, "batch_start", stride, "every_few_batches")

KwFunction(kw) ==
    [k \in {kw[i][1] : i \in 1..Len(kw)} |->
        LET i == CHOOSE j \in 1..Len(kw) :
                    kw[j][1] = k /\ \A l \in (j + 1)..Len(kw) : kw[l][1] # k
        IN kw[i][2]]

\* Engine(params, dataloader, **kwargs)
NewEngine(bag, len, kw, defines) ==
    [state |-> "IDLE", pc |-> "idle", params |-> bag, attrs |-> KwFunction(kw),
     defines |-> defines, hooks |-> DecoratedHooks, len |-> len, pos |-> 0, mb |-> 0,
     boundary |-> FALSE, loss_acc |-> 0, backups |-> <<>>, log |-> <<>>, err |-> "",
     why |-> "", runs |-> 0]

Has(e, word) == EngineGet(e, Unmarked(word)) # AttributeError

\* the same engine, given mini_batch_size = 1 when it has no such attribute
WithMiniBatchOne(e) ==
    IF Has(e, "mini_batch_size") THEN e
    ELSE [e EXCEPT !.attrs = Put(@, Unmarked("mini_batch_size"), Plain(1))]

Opt(word, n) == IF n = 0 THEN <<>> ELSE <<<<Unmarked(word), Plain(n)>>>>

\* keyword arguments a user may hand to HyperParameters next to the tutorial's
ExtraKw == {<<>>, <<<<Unmarked("batch"), Plain(1)>>>>, <<<<Private("epoch"), Plain(1)>>>>}

\* the methods a subclass may define: the tutorial's quit needs max_batches
Policies ==
    {[defines |-> d, max |-> 0] : d \in SUBSET Required} \cup
    {[defines |-> Required \cup {"quit"}, max |-> m] : m \in 0..MaxBatches}

EngIdle ==
    /\ eng = NewEngine(BagNew(<<>>), 0, <<>>, Required)
    /\ twin = eng

BagIdle ==
    /\ params = EmptyBag
    /\ everMarked = {}
    /\ lastMarked = {}
    /\ lastSet = <<>>
    /\ pfile = NoFile
    /\ saved = EmptyBag
    /\ fresh = EmptyBag
    /\ freshAt = EmptyBag
    /\ got = NotRead
    /\ shown = <<>>
    /\ phase = "idle"
    /\ step = 0

NoCall == [ev |-> "", stride |-> 0, fn |-> "", before |-> NoHooks, err |-> ""]

HookIdle ==
    hk = [reg |-> NoHooks, ev |-> "batch_end", made |-> <<>>, tried |-> 0, counter |-> 0,
          calls |-> <<>>, failed |-> FALSE, last |-> NoCall]

AttrIdle ==
    acc = [e |-> NewEngine(EmptyBag, 0, <<>>, {}), bag |-> EmptyBag, kw |-> <<>>,
           key |-> <<>>, res |-> AttributeError, file |-> NoFile]

EngStart ==
    \E len \in 0..MaxLen, mbs \in 0..MaxMB, pol \in Policies, rate \in 0..MaxStride,
       extra \in ExtraKw, few \in {0, MaxStride} :
        /\ eng = [NewEngine(BagNew(Opt("mini_batch_size", mbs) \o Opt("max_batches", pol.max)
                                   \o extra),
                            len, <<<<Unmarked("backup_rate"), Plain(rate)>>>>, pol.defines)
                     EXCEPT !.hooks = WithBatchStartHook(@, few)]
        /\ twin = WithMiniBatchOne(eng)

Init == EngStart /\ BagIdle /\ HookIdle /\ AttrIdle

BagInit == BagStart /\ EngIdle /\ HookIdle /\ AttrIdle

\* engine()
Invoke ==
    /\ eng.pc \in {"idle", "done"}
    /\ eng.runs < MaxRuns
    /\ eng' = Enter(eng)
    /\ twin' = Step(twin, FALSE)
    /\ UNCHANGED <<bagVars, hk, acc>>

Loop ==
    /\ eng.pc = "loop"
    /\ eng' = LoopHead(eng)
    /\ twin' = Step(twin, FALSE)
    /\ UNCHANGED <<bagVars, hk, acc>>

FireBatchStart ==
    /\ eng.pc = "batch_start"
    /\ eng' = BatchStart(eng)
    /\ twin' = Step(twin, FALSE)
    /\ UNCHANGED <<bagVars, hk, acc>>

Process ==
    /\ eng.pc = "process"
    /\ \E raise \in BOOLEAN :
         /\ eng' = ProcessBatch(eng, raise)
         /\ twin' = Step(twin, raise)
    /\ UNCHANGED <<bagVars, hk, acc>>

Train ==
    /\ eng.pc = "train"
    /\ \E raise \in BOOLEAN :
         /\ eng' = TrainBatch(eng, raise)
         /\ twin' = Step(twin, raise)
    /\ UNCHANGED <<bagVars, hk, acc>>

CountBatch ==
    /\ eng.pc = "increment"
    /\ eng' = IncrementBatch(eng)
    /\ twin' = Step(twin, FALSE)
    /\ UNCHANGED <<bagVars, hk, acc>>

FireBatchEnd ==
    /\ eng.pc = "batch_end"
    /\ eng' = BatchEnd(eng)
    /\ twin' = Step(twin, FALSE)
    /\ UNCHANGED <<bagVars, hk, acc>>

Epoch ==
    /\ eng.pc = "epoch"
    /\ eng' = EpochEnd(eng)
    /\ twin' = Step(twin, FALSE)
    /\ UNCHANGED <<bagVars, hk, acc>>

AskQuit ==
    /\ eng.pc = "quit"
    /\ eng' = Quit(eng)
    /\ twin' = Step(twin, FALSE)
    /\ UNCHANGED <<bagVars, hk, acc>>

Next ==
    \/ Invoke
    \/ Loop
    \/ FireBatchStart
    \/ Process
    \/ Train
    \/ CountBatch
    \/ FireBatchEnd
    \/ Epoch
    \/ AskQuit

Spec == Init /\ [][Next]_vars

\* a step of the run loop: the loop is synchronous, every call it makes returns or raises
RunStep ==
    \/ Loop
    \/ FireBatchStart
    \/ Process
    \/ Train
    \/ CountBatch
    \/ FireBatchEnd
    \/ Epoch
    \/ AskQuit

\* the run loop goes on once invoked; invoking the engine is up to the caller
LiveSpec == Init /\ [][Next]_vars /\ WF_vars(RunStep)

BagSpec == BagInit /\ [][BagNext]_vars

(***************************************************************************)
(* HookSpec: hooks are registered on a registry and fire(event, n) is      *)
(* called with n = 1, 2, 3, ... for one of the events.  Fields of hk:      *)
(*   reg      the registry                                                 *)
(*   ev       the event fire is called for                                 *)
(*   tried    the register calls made                                      *)
(*   made     the register calls that succeeded: event, stride, callable   *)
(*            and the last counter value fired before the call             *)
(*   counter  the last counter value passed to fire                        *)
(*   calls    the hooks invoked so far, in order                           *)
(*   failed   the last register call raised ValueError                     *)
(*   last     the last register call: its arguments, the registry before   *)
(*            it and the error it raised                                   *)
(***************************************************************************)
MaxHooks == 2           \* register calls in one behaviour
MaxCount == 4           \* counter values passed to fire

\* the k-th callable handed to register
Callable(k) == IF k = 1 THEN "first" ELSE IF k = 2 THEN "second" ELSE "later"

HRegister ==
    /\ hk.tried < MaxHooks
    /\ \E ev \in Events, stride \in 0..MaxStride :
         LET fn == Callable(hk.tried + 1)
         IN hk' = [hk EXCEPT
                     !.tried = @ + 1,
                     !.reg = Register(@, ev, stride, fn),
                     !.made = IF RegisterFails(stride) THEN @
                              ELSE Append(@, [ev |-> ev, stride |-> stride, fn |-> fn,
                                              at |-> hk.counter]),
                     !.failed = RegisterFails(stride),
                     !.last = [ev |-> ev, stride |-> stride, fn |-> fn, before |-> hk.reg,
                               err |-> RegisterError(stride)]]
    /\ UNCHANGED <<bagVars, eng, twin, acc>>

HFire ==
    /\ hk.counter < MaxCount
    /\ LET n == hk.counter + 1
           due == Fire(hk.reg, hk.ev, n)
       IN hk' = [hk EXCEPT
                   !.counter = n,
                   !.failed = FALSE,
                   !.calls = @ \o [i \in 1..Len(due) |->
                                     [fn |-> due[i].fn, stride |-> due[i].stride, n |-> n]]]
    /\ UNCHANGED <<bagVars, eng, twin, acc>>

HookInit ==
    /\ \E ev \in Events : hk = [reg |-> NoHooks, ev |-> ev, made |-> <<>>, tried |-> 0, counter |-> 0,
                                calls |-> <<>>, failed |-> FALSE, last |-> NoCall]
    /\ EngIdle /\ BagIdle /\ AttrIdle

HookNext ==
    \/ HRegister
    \/ HFire

HookSpec == HookInit /\ [][HookNext]_vars

(***************************************************************************)
(* AttrSpec: an engine is constructed on a bag with keyword arguments;     *)
(* names are read on it and its bag is saved.                              *)
(***************************************************************************)
AttrWords == {"device", "max_batches", "foo"}

AttrBagKw == SeqsUpTo({<<Unmarked("max_batches"), Plain(0)>>,
                       <<Unmarked("foo"), Plain(0)>>,
                       <<Private("foo"), Plain(0)>>}, MaxKw)

AttrEngKw == SeqsUpTo({<<Unmarked(w), Plain(1)>> : w \in AttrWords \cup {"batch"}}, MaxKw + 1)

AttrInit ==
    /\ \E bkw \in AttrBagKw, kw \in AttrEngKw :
         acc = [e |-> NewEngine(BagNew(bkw), 0, kw, Required), bag |-> BagNew(bkw),
                kw |-> kw, key |-> <<>>, res |-> AttributeError, file |-> NoFile]
    /\ EngIdle /\ BagIdle /\ HookIdle

\* engine.key
ARead ==
    /\ \E k \in {Unmarked(w) : w \in AttrWords \cup {"batch", "epoch"}} :
           acc' = [acc EXCEPT !.key = k, !.res = EngineGet(acc.e, k)]
    /\ UNCHANGED <<bagVars, eng, twin, hk>>

\* engine.params.save(path)
ASave ==
    /\ ~acc.file.exists
    /\ acc' = [acc EXCEPT !.file = [exists |-> TRUE, data |-> BagSave(acc.e.params)]]
    /\ UNCHANGED <<bagVars, eng, twin, hk>>

AttrNext ==
    \/ ARead
    \/ ASave

AttrSpec == AttrInit /\ [][AttrNext]_vars

(***************************************************************************)
(* What a run shows: helpers over an engine and its log.                   *)
(***************************************************************************)
BatchOf(e) == e.params.attrs[Unmarked("batch")].v
EpochOf(e) == e.params.attrs[Unmarked("epoch")].v

Min(a, b) == IF a < b THEN a ELSE b
CeilDiv(a, b) == (a + b - 1) \div b

\* positions of the calls of one method that returned
CallsOf(e, op) == {i \in 1..Len(e.log) : e.log[i].op = op /\ e.log[i].fn # "raise"}

\* the train_batch call before position i, 0 if none
TrainBefore(e, i) ==
    LET before == {j \in CallsOf(e, "train_batch") : j < i}
    IN IF before = {} THEN 0 ELSE CHOOSE j \in before : \A l \in before : l <= j

\* the process_batch calls of the mini-batch that the train_batch at i closes
MiniBatchOf(e, i) == {j \in CallsOf(e, "process_batch") : TrainBefore(e, i) < j /\ j < i}

QuitWasTrue(e) == \E i \in CallsOf(e, "quit") : e.log[i].n = 1

Exhausted(e) == e.pc = "done" /\ e.why = "exhausted" /\ ~QuitWasTrue(e)

\* the sizes of the mini-batches trained so far, in order
RECURSIVE TrainedSizes(_)
TrainedSizes(log) ==
    IF log = <<>> THEN <<>>
    ELSE IF Head(log).op = "train_batch" /\ Head(log).fn # "raise"
           THEN <<Head(log).n>> \o TrainedSizes(Tail(log))
           ELSE TrainedSizes(Tail(log))

(***************************************************************************)
(* C1.  Mini-batch accounting: with mini_batch_size = M, every train_batch *)
(* call closes a mini-batch of exactly min(M, items remaining) consecutive *)
(* process_batch calls, one data item each; when the source of length L is *)
(* exhausted without quit() having been true, train_batch has been called  *)
(* ceil(L / M) times and every item was processed once: the last           *)
(* mini-batch is short, not padded and not dropped.                        *)
(***************************************************************************)
C1_MiniBatchAccounting ==
    Has(eng, "mini_batch_size") =>
        LET M == EngineGet(eng, Unmarked("mini_batch_size")).v
        IN /\ \A i \in CallsOf(eng, "train_batch") :
                LET mbatch == MiniBatchOf(eng, i)
                IN /\ mbatch # {}
                   /\ \E lo \in 1..eng.len :
                        /\ {eng.log[j].n : j \in mbatch} = lo..(lo + Cardinality(mbatch) - 1)
                        /\ Cardinality(mbatch) = Min(M, eng.len - (lo - 1))
                        /\ lo = 1 + Cardinality({j \in CallsOf(eng, "process_batch") :
                                                    j < TrainBefore(eng, i)})
                   /\ eng.log[i].n = Cardinality(mbatch)
           /\ Exhausted(eng) =>
                /\ Cardinality(CallsOf(eng, "train_batch")) = CeilDiv(eng.len, M)
                /\ Cardinality(CallsOf(eng, "process_batch")) = eng.len

C1_Witness ==
    /\ Exhausted(eng)
    /\ Has(eng, "mini_batch_size")
    /\ EngineGet(eng, Unmarked("mini_batch_size")).v = 3
    /\ eng.len = 5
    /\ TrainedSizes(eng.log) = <<3, 2>>

Observable(e) ==
    [log |-> e.log, batch |-> BatchOf(e), epoch |-> EpochOf(e), state |-> e.state,
     pos |-> e.pos, err |-> e.err, why |-> e.why, backups |-> e.backups]

C4_DegenerateMiniBatch ==
    ~Has(eng, "mini_batch_size") =>
        /\ Has(twin, "mini_batch_size")
        /\ EngineGet(twin, Unmarked("mini_batch_size")) = Plain(1)
        /\ Observable(eng) = Observable(twin)
        /\ \A i \in CallsOf(eng, "process_batch") :
              i < Len(eng.log) => eng.log[i + 1].op = "train_batch"

C4_Witness ==
    /\ ~Has(eng, "mini_batch_size")
    /\ Exhausted(eng)
    /\ TrainedSizes(eng.log) = <<1, 1, 1>>

(***************************************************************************)
(* C5.  Batch counter accounting: the batch counter is the number of       *)
(* train_batch calls whose iteration has reached its increment; a source   *)
(* of 10 items with mini_batch_size = 4 is trained in mini-batches of 4, 4 *)
(* and 2 items and leaves batch = 3.                                       *)
(***************************************************************************)
C5_BatchCounter ==
    /\ BatchOf(eng) = Cardinality(CallsOf(eng, "train_batch"))
                      - (IF eng.pc = "increment" THEN 1 ELSE 0)
    /\ (Exhausted(eng) /\ eng.len = 10 /\ Has(eng, "mini_batch_size")
          /\ EngineGet(eng, Unmarked("mini_batch_size")).v = 4) =>
          /\ TrainedSizes(eng.log) = <<4, 4, 2>>
          /\ BatchOf(eng) = 3

C5_Witness ==
    /\ Exhausted(eng)
    /\ eng.len = 10
    /\ TrainedSizes(eng.log) = <<4, 4, 2>>
    /\ BatchOf(eng) = 3

(***************************************************************************)
(* C8.  Reserved counters: a new bag holds batch = 0 and epoch = 0         *)
(* whatever keyword arguments it was created with; both are present in     *)
(* every state; a step of the run changes them only by the engine's own    *)
(* increments: batch by one after train_batch, epoch by one at the end of  *)
(* a pass.  start, process_batch, train_batch, quit and the firing of      *)
(* batch hooks leave both unchanged.                                       *)
(***************************************************************************)
CountersPresent(e) == {Unmarked("batch"), Unmarked("epoch")} \subseteq DOMAIN e.params.attrs

C8_ReservedCounters ==
    /\ [](/\ CountersPresent(eng)
          /\ eng.runs = 0 => (BatchOf(eng) = 0 /\ EpochOf(eng) = 0))
    /\ [][/\ eng.pc \notin {"increment", "epoch"} =>
               (BatchOf(eng') = BatchOf(eng) /\ EpochOf(eng') = EpochOf(eng))
          /\ eng.pc = "increment" =>
               (BatchOf(eng') = BatchOf(eng) + 1 /\ EpochOf(eng') = EpochOf(eng))
          /\ eng.pc = "epoch" =>
               (/\ BatchOf(eng') = BatchOf(eng)
                /\ EpochOf(eng') = EpochOf(eng) + (IF eng.boundary THEN 1 ELSE 0))]_vars

C8_Witness ==
    /\ Unmarked("epoch") \in eng.params.no_serialize
    /\ BatchOf(eng) = 2
    /\ EpochOf(eng) = 1
    /\ eng.pc = "quit"

MadeIndex(fn) == CHOOSE i \in 1..Len(hk.made) : hk.made[i].fn = fn

C3_HookStride ==
    /\ \A m \in 1..Len(hk.made) :
          LET h == hk.made[m]
              mine == {i \in 1..Len(hk.calls) : hk.calls[i].fn = h.fn}
          IN IF h.ev # hk.ev THEN mine = {}
             ELSE /\ {hk.calls[i].n : i \in mine} =
                        {n \in (h.at + 1)..hk.counter : n > 0 /\ n % h.stride = 0}
                  /\ \A i, j \in mine : hk.calls[i].n = hk.calls[j].n => i = j
    /\ \A i \in 1..Len(hk.calls) : \E m \in 1..Len(hk.made) : hk.made[m].fn = hk.calls[i].fn
    /\ \A i, j \in 1..Len(hk.calls) :
          i < j => \/ hk.calls[i].n < hk.calls[j].n
                   \/ /\ hk.calls[i].n = hk.calls[j].n
                      /\ MadeIndex(hk.calls[i].fn) < MadeIndex(hk.calls[j].fn)

C3_Witness ==
    /\ hk.counter = MaxCount
    /\ Len(hk.made) = 2
    /\ hk.made[1].stride = 2 /\ hk.made[2].stride = 1
    /\ hk.made[1].at = 0 /\ hk.made[2].at = 0
    /\ [i \in 1..Len(hk.calls) |-> <<hk.calls[i].fn, hk.calls[i].n>>] =
          <<<<"second", 1>>, <<"first", 2>>, <<"second", 2>>, <<"second", 3>>,
            <<"first", 4>>, <<"second", 4>>>>

(***************************************************************************)
(* C6.  Save/load round trip: after save and load into a fresh bag that    *)
(* holds a module exactly where the saved bag held a saved module, every   *)
(* non-private plain attribute of the saved bag (batch and epoch too) has  *)
(* its value of save time in the fresh bag, and load_state_dict of every   *)
(* saved module was called once, with the state its state_dict produced.   *)
(***************************************************************************)
Matching ==
    \A k \in Serializable(saved) :
        HasStateDict(saved.attrs[k]) <=>
            (k \in DOMAIN freshAt.attrs /\ HasStateDict(freshAt.attrs[k]))

C6_RoundTrip ==
    (phase = "loaded" /\ Matching) =>
        \A k \in Serializable(saved) :
            /\ k \in DOMAIN fresh.attrs
            /\ IF HasStateDict(saved.attrs[k])
                 THEN /\ fresh.attrs[k].loaded =
                            freshAt.attrs[k].loaded \o <<[kind |-> "plain", v |-> saved.attrs[k].v,
                                                          loaded |-> <<>>]>>
                      /\ freshAt.attrs[k].loaded = <<>>
                      /\ fresh.attrs[k].kind = "module"
                 ELSE fresh.attrs[k] = saved.attrs[k]

C6_Witness ==
    /\ phase = "loaded"
    /\ Matching
    /\ Unmarked("network") \in Serializable(saved)
    /\ saved.attrs[Unmarked("network")].v # freshAt.attrs[Unmarked("network")].v
    /\ Unmarked("foo") \in saved.no_serialize
    /\ saved.attrs[Unmarked("batch")].v = 1
    /\ fresh.attrs[Unmarked("batch")].v = 1

(***************************************************************************)
(* C7.  Privacy of marked attributes (as amended): an attribute assigned   *)
(* under a marked name is read back under the stripped name, carries the   *)
(* star in print(params) and is not in the saved file; the mark is kept    *)
(* when the attribute is assigned again under its unmarked name, so the    *)
(* file holds exactly the attributes never assigned under a marked name.   *)
(***************************************************************************)
C7_PrivacySticky ==
    /\ (got.key # <<>> /\ got.key = Strip(lastSet[1])) => got.res = lastSet[2]
    /\ \A i \in 1..Len(shown) : shown[i].star <=> shown[i].name \in everMarked
    /\ Len(shown) > 0 => {shown[i].name : i \in 1..Len(shown)} = DOMAIN params.attrs
    /\ pfile.exists => DOMAIN pfile.data = (DOMAIN saved.attrs) \ everMarked

C7_Witness ==
    /\ phase = "saved"
    /\ Unmarked("foo") \in everMarked \ lastMarked
    /\ Unmarked("foo") \in DOMAIN saved.attrs
    /\ Unmarked("foo") \notin DOMAIN pfile.data
    /\ Unmarked("network") \in DOMAIN pfile.data

(***************************************************************************)
(* C7 as the specification states it: the file holds exactly the           *)
(* attributes whose last assignment used an unmarked name.                 *)
(***************************************************************************)
C7_LastAssignmentDecides ==
    pfile.exists => DOMAIN pfile.data = (DOMAIN saved.attrs) \ lastMarked

(***************************************************************************)
(* C9.  Attribute delegation: a read on the engine returns the keyword     *)
(* argument of that name given at construction, otherwise the bag's        *)
(* attribute, otherwise fails with AttributeError; constructing the engine *)
(* leaves its bag as it was, and no keyword argument that the bag did not  *)
(* hold itself is in the saved file.                                       *)
(***************************************************************************)
KwNames(kw) == {kw[i][1] : i \in 1..Len(kw)}

LastKw(kw, k) ==
    kw[CHOOSE i \in 1..Len(kw) : kw[i][1] = k /\ \A j \in (i + 1)..Len(kw) : kw[j][1] # k][2]

C9_AttributeDelegation ==
    /\ acc.key # <<>> =>
          acc.res = IF acc.key \in KwNames(acc.kw) THEN LastKw(acc.kw, acc.key)
                    ELSE IF acc.key \in DOMAIN acc.bag.attrs THEN acc.bag.attrs[acc.key]
                    ELSE AttributeError
    /\ acc.e.params = acc.bag
    /\ acc.file.exists =>
          /\ DOMAIN acc.file.data \subseteq DOMAIN acc.bag.attrs
          /\ \A k \in DOMAIN acc.file.data : acc.file.data[k] = acc.bag.attrs[k]

C9_Witness ==
    /\ acc.key = Unmarked("max_batches")
    /\ acc.key \in KwNames(acc.kw)
    /\ acc.key \in DOMAIN acc.bag.attrs
    /\ acc.res = Plain(1)
    /\ acc.bag.attrs[acc.key] = Plain(0)
    /\ acc.file.exists
    /\ Unmarked("device") \in KwNames(acc.kw)
    /\ Unmarked("device") \notin DOMAIN acc.file.data

(***************************************************************************)
(* C11.  Invalid stride: a register call with stride < 1 raises ValueError *)
(* and leaves the registry as it was: the callable is on no event and the  *)
(* hooks registered before keep their order and strides.  With stride >= 1 *)
(* the hook is appended behind the hooks already registered on its event   *)
(* and the other events are untouched.                                     *)
(***************************************************************************)
OnEvent(reg, ev, fn) == \E i \in 1..Len(reg[ev]) : reg[ev][i].fn = fn

IsHook(x, ev) == x.op = "hook" /\ x.ev = ev

IsEpochHook(x) == IsHook(x, "epoch_end") \/ IsHook(x, "epoch_start")

\* the calls that open an iteration
Opening(x) == IsHook(x, "batch_start") \/ x.op = "process_batch"

\* the calls that close an iteration once train_batch has returned
Closing(x) == IsHook(x, "batch_end") \/ IsEpochHook(x) \/ x.op = "quit"

\* call b may come directly after call a
Follows(a, b) ==
    \/ /\ b.op = "engine"
       /\ a.op \in {"engine", "start", "quit"}
       /\ b.batch = a.batch
    \/ /\ a.op = "engine"
       /\ b.op = "start" \/ Opening(b)
       /\ b.batch = a.batch
    \/ /\ a.op = "start" \/ (a.op = "quit" /\ a.n = 0)
       /\ Opening(b)
       /\ b.batch = a.batch
    \/ /\ IsHook(a, "batch_start")
       /\ Opening(b)
       /\ IsHook(b, "batch_start") => b.n = a.n
       /\ b.batch = a.batch
    \/ /\ a.op = "process_batch" /\ a.fn # "raise"
       /\ b.op \in {"process_batch", "train_batch"}
       /\ b.batch = a.batch
    \/ /\ a.op = "train_batch" /\ a.fn # "raise"
       /\ Closing(b)
       /\ b.batch = a.batch + 1
    \/ /\ IsHook(a, "batch_end")
       /\ Closing(b)
       /\ a.n = a.batch
       /\ IsHook(b, "batch_end") => b.n = a.n
       /\ b.batch = a.batch
    \/ /\ IsEpochHook(a)
       /\ IsEpochHook(b) \/ b.op = "quit"
       /\ b.batch = a.batch

C12_OrderOfEvents ==
    /\ \A i \in 1..(Len(eng.log) - 1) : Follows(eng.log[i], eng.log[i + 1])
    /\ \A i \in 1..Len(eng.log) :
          eng.log[i].fn = "backup" =>
             /\ IsHook(eng.log[i], "batch_end")
             /\ i > 1
             /\ eng.log[i - 1].op = "train_batch"
             /\ eng.log[i].n = eng.log[i - 1].batch + 1
    /\ \A i \in CallsOf(eng, "train_batch") :
          (i < Len(eng.log) /\ Has(eng, "backup_rate")
             /\ EngineGet(eng, Unmarked("backup_rate")).v > 0
             /\ (eng.log[i].batch + 1) % EngineGet(eng, Unmarked("backup_rate")).v = 0) =>
                eng.log[i + 1].fn = "backup"

C12_Witness ==
    \E i \in 1..Len(eng.log) :
        /\ i + 6 <= Len(eng.log)
        /\ [j \in 1..7 |-> eng.log[i + j - 1].op] =
              <<"process_batch", "process_batch", "train_batch", "hook", "hook", "quit",
                "process_batch">>
        /\ eng.log[i + 3].fn = "backup"
        /\ IsHook(eng.log[i + 4], "epoch_end")
        /\ eng.log[i + 5].n = 0

(***************************************************************************)
(* C13.  batch_start numbering: a batch_start hook with stride K is called *)
(* exactly before the batches whose upcoming number (the bag's batch       *)
(* counter + 1) is a positive multiple of K, once, and while it runs the   *)
(* bag still holds the pre-increment value, so that batch + 1 read in the  *)
(* hook is that multiple.  every_ten_batches is a batch_start hook of      *)
(* stride 10: it runs before batch 10, 20, 30, ...                         *)
(***************************************************************************)
\* the batch_start hook calls made right before the call at position i
RECURSIVE StartBlock(_, _)
StartBlock(log, i) ==
    IF i > 1 /\ IsHook(log[i - 1], "batch_start")
      THEN {i - 1} \cup StartBlock(log, i - 1)
      ELSE {}

\* the process_batch calls that open a batch
FirstOfBatch(e) ==
    {i \in 1..Len(e.log) :
        /\ e.log[i].op = "process_batch"
        /\ i > 1 => e.log[i - 1].op # "process_batch"}

StrideOf(e, ev, fn) ==
    LET i == CHOOSE j \in 1..Len(e.hooks[ev]) : e.hooks[ev][j].fn = fn
    IN e.hooks[ev][i].stride

C13_BatchStartNumbering ==
    /\ \A i \in 1..Len(eng.log) :
          IsHook(eng.log[i], "batch_start") =>
             /\ OnEvent(eng.hooks, "batch_start", eng.log[i].fn)
             /\ eng.log[i].n = eng.log[i].batch + 1
             /\ (eng.log[i].batch + 1) % StrideOf(eng, "batch_start", eng.log[i].fn) = 0
    /\ \A i \in 1..Len(eng.log) :
          eng.log[i].fn = "every_ten_batches" =>
             /\ IsHook(eng.log[i], "batch_start")
             /\ (eng.log[i].batch + 1) % TenBatches = 0
    /\ \A i \in FirstOfBatch(eng) :
          LET upcoming == eng.log[i].batch + 1
              called == StartBlock(eng.log, i)
              due == {j \in 1..Len(eng.hooks["batch_start"]) :
                         upcoming % eng.hooks["batch_start"][j].stride = 0}
          IN /\ {eng.log[j].fn : j \in called} = {eng.hooks["batch_start"][j].fn : j \in due}
             /\ Cardinality(called) = Cardinality(due)

C13_Witness ==
    /\ Exhausted(eng)
    /\ BatchOf(eng) = TenBatches
    /\ OnEvent(eng.hooks, "batch_start", "every_few_batches")
    /\ StrideOf(eng, "batch_start", "every_few_batches") = 2
    /\ {<<eng.log[i].fn, eng.log[i].n, eng.log[i].batch>> :
           i \in {j \in 1..Len(eng.log) : IsHook(eng.log[j], "batch_start")}} =
          {<<"every_few_batches", 2, 1>>, <<"every_few_batches", 4, 3>>,
           <<"every_few_batches", 6, 5>>, <<"every_few_batches", 8, 7>>,
           <<"every_ten_batches", 10, 9>>, <<"every_few_batches", 10, 9>>}

(***************************************************************************)
(* C14.  Across the invocations of one engine the backup hook, registered  *)
(* on batch_end with stride N from start(), has been called exactly once   *)
(* for each value of the batch counter that is a positive multiple of N,   *)
(* in increasing order, and for no other value; the file it wrote for      *)
(* value n holds batch = n.  Stopping a run and invoking the engine again  *)
(* neither repeats nor skips a multiple.                                   *)
(***************************************************************************)
\* the values the hook fn was called with, in order
RECURSIVE FiredWith(_, _)
FiredWith(log, fn) ==
    IF log = <<>> THEN <<>>
    ELSE IF Head(log).op = "hook" /\ Head(log).fn = fn
           THEN <<Head(log).n>> \o FiredWith(Tail(log), fn)
           ELSE FiredWith(Tail(log), fn)

\* the values of the batch counter whose batch_end hooks have been fired
BatchesEnded(e) == BatchOf(e) - (IF e.pc = "batch_end" THEN 1 ELSE 0)

C14_OncePerMultiple ==
    LET rate == EngineGet(eng, Unmarked("backup_rate"))
        fired == FiredWith(eng.log, "backup")
    IN IF rate # AttributeError /\ rate.v > 0
         THEN /\ Len(fired) = BatchesEnded(eng) \div rate.v
              /\ \A k \in 1..Len(fired) : fired[k] = k * rate.v
              /\ Len(eng.backups) = Len(fired)
              /\ \A k \in 1..Len(fired) : eng.backups[k][Unmarked("batch")] = Plain(fired[k])
         ELSE fired = <<>> /\ eng.backups = <<>>

C14_Witness ==
    /\ eng.runs = 2
    /\ eng.pc = "done"
    /\ eng.why = "quit"
    /\ FiredWith(eng.log, "backup") = <<2, 4>>
    /\ \E i \in 1..Len(eng.log) :
          /\ eng.log[i].op = "engine" /\ eng.log[i].n = 2 /\ eng.log[i].batch = 3

(***************************************************************************)
(* C15.  start() is called exactly once per engine: it is the first call   *)
(* of the first invocation, on the IDLE to RUNNING transition, before any  *)
(* batch_start hook, process_batch or train_batch.  A later invocation     *)
(* does not call it and finds batch and epoch as the previous run left     *)
(* them: the counters are not reset.                                       *)
(***************************************************************************)
\* position of the engine() call that opened invocation k
InvocationAt(e, k) == CHOOSE i \in 1..Len(e.log) : e.log[i].op = "engine" /\ e.log[i].n = k

C15_StartOnce ==
    LET starts == CallsOf(eng, "start")
    IN /\ eng.runs = 0 => (eng.state = "IDLE" /\ eng.log = <<>>)
       /\ (eng.runs > 0 /\ Required \subseteq eng.defines) =>
             /\ eng.state # "IDLE"
             /\ starts = {2}
             /\ eng.log[1].op = "engine" /\ eng.log[1].n = 1
       /\ ~(Required \subseteq eng.defines) => starts = {}
       /\ \A k \in 2..eng.runs :
             LET i == InvocationAt(eng, k)
             IN /\ i > 2
                /\ eng.log[i].batch = eng.log[i - 1].batch
                /\ eng.log[i].epoch = eng.log[i - 1].epoch
                /\ eng.log[i].batch = Cardinality({j \in CallsOf(eng, "train_batch") : j < i})
                /\ i < Len(eng.log) =>
                      /\ eng.log[i + 1].op # "start"
                      /\ eng.log[i + 1].batch = eng.log[i].batch
                      /\ eng.log[i + 1].epoch = eng.log[i].epoch
                /\ i = Len(eng.log) =>
                      BatchOf(eng) = eng.log[i].batch /\ EpochOf(eng) = eng.log[i].epoch

C15_Witness ==
    /\ eng.runs = 2
    /\ eng.pc = "done"
    /\ CallsOf(eng, "start") = {2}
    /\ LET i == InvocationAt(eng, 2)
       IN /\ eng.log[i].batch = 2
          /\ eng.log[i].epoch = 1
          /\ \E j \in CallsOf(eng, "train_batch") : j > i
    /\ BatchOf(eng) = 3

(***************************************************************************)
(* C16.  quit() is evaluated exactly once for each completed batch: the    *)
(* k-th evaluation finds batch = k, comes after the train_batch of that    *)
(* batch, its increment and its batch_end (and epoch) hooks, and nothing   *)
(* but those hooks lies between that train_batch and it.  It is evaluated  *)
(* at no other time: not between the process_batch calls of a mini-batch   *)
(* and not before the first batch of an invocation.                        *)
(***************************************************************************)
\* positions of the quit() evaluations, those that raised included
QuitCalls(e) == {i \in 1..Len(e.log) : e.log[i].op = "quit"}

C16_QuitOncePerBatch ==
    /\ Cardinality(QuitCalls(eng)) =
          BatchOf(eng) - (IF eng.pc \in {"batch_end", "epoch", "quit"} THEN 1 ELSE 0)
    /\ \A i \in QuitCalls(eng) :
          LET t == TrainBefore(eng, i)
          IN /\ eng.log[i].batch = Cardinality({j \in QuitCalls(eng) : j <= i})
             /\ t > 0
             /\ eng.log[t].batch = eng.log[i].batch - 1
             /\ \A j \in (t + 1)..(i - 1) :
                   IsHook(eng.log[j], "batch_end") \/ IsEpochHook(eng.log[j])
             /\ \A j \in (t + 1)..(i - 1) :
                   IsHook(eng.log[j], "batch_end") => eng.log[j].n = eng.log[i].batch
    /\ \A i \in 1..(Len(eng.log) - 1) :
          eng.log[i].op \in {"engine", "start", "process_batch"} => eng.log[i + 1].op # "quit"

C16_Witness ==
    /\ eng.why = "quit"
    /\ eng.runs = 2
    /\ Has(eng, "mini_batch_size")
    /\ EngineGet(eng, Unmarked("mini_batch_size")).v = 2
    /\ BatchOf(eng) = 4
    /\ {<<eng.log[i].batch, eng.log[i].n>> : i \in QuitCalls(eng)} =
          {<<1, 0>>, <<2, 0>>, <<3, 1>>, <<4, 1>>}
    /\ Cardinality(CallsOf(eng, "process_batch")) = 2 * 4

(***************************************************************************)
(* C17.  Every run over a finite data source terminates: a RUNNING engine  *)
(* becomes STOPPED.  With a source of length L and mini_batch_size M no    *)
(* more than L items are pulled and no more than ceil(L / M) batches are   *)
(* trained, also when quit() never returns true; a stopped engine still    *)
(* holds its bag with both counters, batch being the number of batches     *)
(* trained.  With the default quit() a run ends only by exhaustion of the  *)
(* source or by an error.                                                  *)
(***************************************************************************)
C17_Bounded ==
    /\ eng.pos <= eng.len
    /\ BatchOf(eng) <= CeilDiv(eng.len, MiniBatchSize(eng))
    /\ Cardinality(CallsOf(eng, "train_batch")) <= CeilDiv(eng.len, MiniBatchSize(eng))
    /\ eng.state = "STOPPED" =>
          /\ eng.pc \in {"done", "error"}
          /\ CountersPresent(eng)
          /\ BatchOf(eng) = Cardinality(CallsOf(eng, "train_batch"))
          /\ eng.why \in {"quit", "exhausted", "error"}
          /\ eng.why = "exhausted" => eng.pos = eng.len
    /\ "quit" \notin eng.defines => eng.why \in {"", "exhausted", "error"}

C17_Termination ==
    /\ []C17_Bounded
    /\ (eng.state = "RUNNING") ~> (eng.state = "STOPPED")

C17_Witness ==
    /\ "quit" \notin eng.defines
    /\ eng.state = "STOPPED"
    /\ eng.why = "exhausted"
    /\ eng.len = 7
    /\ MiniBatchSize(eng) = 3
    /\ BatchOf(eng) = 3
    /\ EpochOf(eng) = 1
    /\ TrainedSizes(eng.log) = <<3, 3, 1>>

(***************************************************************************)
(* C18.  load, key by key: for a key of the file under which the bag holds *)
(* an attribute with load_state_dict(), that method is called once with    *)
(* the loaded state and the object stays in the bag; for any other key the *)
(* loaded value is assigned as it is, creating the attribute if the bag    *)
(* did not hold it; every attribute of the bag that is not a key of the    *)
(* file keeps its value, and every private mark of the bag is kept.        *)
(***************************************************************************)
Restores(bag, k) == k \in DOMAIN bag.attrs /\ HasStateDict(bag.attrs[k])

C18_LoadPerKey ==
    phase = "loaded" =>
        /\ DOMAIN fresh.attrs = (DOMAIN freshAt.attrs) \cup (DOMAIN pfile.data)
        /\ \A k \in DOMAIN pfile.data :
              IF Restores(freshAt, k)
                THEN /\ fresh.attrs[k].kind = "module"
                     /\ fresh.attrs[k].loaded = Append(freshAt.attrs[k].loaded, pfile.data[k])
                     /\ fresh.attrs[k].v = pfile.data[k].v
                ELSE fresh.attrs[k] = pfile.data[k]
        /\ \A k \in (DOMAIN freshAt.attrs) \ (DOMAIN pfile.data) :
              fresh.attrs[k] = freshAt.attrs[k]
        /\ fresh.no_serialize = freshAt.no_serialize

C18_Witness ==
    /\ phase = "loaded"
    /\ Restores(freshAt, Unmarked("network"))
    /\ Unmarked("network") \in freshAt.no_serialize
    /\ Unmarked("network") \in DOMAIN pfile.data
    /\ pfile.data[Unmarked("network")].v # freshAt.attrs[Unmarked("network")].v
    /\ Unmarked("foo") \in (DOMAIN pfile.data) \ (DOMAIN freshAt.attrs)
    /\ fresh.attrs[Unmarked("foo")] = Plain(1)
    /\ pfile.data[Unmarked("batch")] = Plain(2)
    /\ freshAt.attrs[Unmarked("batch")] = Plain(0)

(***************************************************************************)
(* C19.  Epoch boundary: for each pass the data source completes, epoch is *)
(* incremented by exactly 1, at the end of the batch in which the pass     *)
(* ended, and the epoch hooks are fired for the new value: every_epoch is  *)
(* called for 1, 2, 3, ... once each.  The epoch hooks of a pass come      *)
(* after the batch_end hooks of that batch and before its quit(), hence    *)
(* before the batch_start hooks of the next batch.  epoch changes at no    *)
(* other point.                                                            *)
(***************************************************************************)
\* passes the data source has completed
PassesDone(e) == e.pos \div PassLen

\* every_epoch calls among the first i calls of the log
EpochsLogged(e, i) == Cardinality({j \in 1..i : e.log[j].fn = "every_epoch"})

C19_EpochBoundary ==
    /\ EpochOf(eng) = PassesDone(eng) - (IF eng.boundary THEN 1 ELSE 0)
    /\ \A i \in 1..Len(eng.log) :
          /\ eng.log[i].epoch = EpochsLogged(eng, i)
          /\ eng.log[i].fn = "every_epoch" =>
                /\ IsHook(eng.log[i], "epoch_end")
                /\ eng.log[i].n = eng.log[i].epoch
                /\ i > 1
                /\ eng.log[i - 1].epoch = eng.log[i].epoch - 1
                /\ eng.log[i - 1].op = "train_batch" \/ IsHook(eng.log[i - 1], "batch_end")
                /\ eng.log[i - 1].batch + (IF eng.log[i - 1].op = "train_batch" THEN 1 ELSE 0)
                      = eng.log[i].batch
                /\ eng.log[i].batch = CeilDiv(eng.log[i].n * PassLen, MiniBatchSize(eng))
                /\ i < Len(eng.log) => eng.log[i + 1].op = "quit" \/ IsEpochHook(eng.log[i + 1])
                /\ \A j \in 1..Len(eng.log) :
                      /\ IsHook(eng.log[j], "batch_end") => (j < i <=> eng.log[j].n <= eng.log[i].batch)
                      /\ IsHook(eng.log[j], "batch_start") => (j < i <=> eng.log[j].n <= eng.log[i].batch)
    /\ EpochsLogged(eng, Len(eng.log)) = EpochOf(eng)

C19_Witness ==
    /\ Exhausted(eng)
    /\ eng.len = 9
    /\ MiniBatchSize(eng) = 3
    /\ EpochOf(eng) = 2
    /\ {<<eng.log[i].n, eng.log[i].batch>> :
           i \in {j \in 1..Len(eng.log) : eng.log[j].fn = "every_epoch"}} = {<<1, 2>>, <<2, 3>>}
    /\ FiredWith(eng.log, "backup") = <<1, 2, 3>>

(***************************************************************************)
(* C20.  Error abort: when process_batch or train_batch raises during the  *)
(* batch that would become batch B + 1, the run ends with that error, the  *)
(* raising call is the last call the engine makes (no retry, no further    *)
(* process_batch, train_batch, hook or quit call), and the bag holds       *)
(* batch = B: the counter is not incremented and no batch_end hook is      *)
(* fired for the failed batch.  The backups written before are as they     *)
(* were, none of them ahead of the bag's counter.                          *)
(***************************************************************************)
\* positions of the calls that raised
Raised(e) ==
    {i \in 1..Len(e.log) : e.log[i].op \in {"process_batch", "train_batch"}
                              /\ e.log[i].fn = "raise"}

C20_ErrorAbort ==
    /\ \A i \in Raised(eng) :
          LET B == Cardinality(CallsOf(eng, "train_batch"))
          IN /\ i = Len(eng.log)
             /\ eng.err = "CollaboratorError"
             /\ eng.pc = "error"
             /\ eng.why = "error"
             /\ eng.state = "STOPPED"
             /\ eng.log[i].batch = B
             /\ BatchOf(eng) = B
             /\ \A j \in 1..Len(eng.log) : IsHook(eng.log[j], "batch_end") => eng.log[j].n <= B
             /\ \A k \in 1..Len(eng.backups) :
                   /\ eng.backups[k][Unmarked("batch")].v <= B
                   /\ eng.backups[k][Unmarked("batch")].v = FiredWith(eng.log, "backup")[k]
    /\ eng.err = "CollaboratorError" => Raised(eng) = {Len(eng.log)}

C20_Witness ==
    /\ Raised(eng) # {}
    /\ eng.log[Len(eng.log)].op = "train_batch"
    /\ eng.mb = 2
    /\ BatchOf(eng) = 2
    /\ Len(eng.backups) = 1
    /\ eng.backups[1][Unmarked("batch")] = Plain(2)
    /\ eng.pos < eng.len

====
